---- MODULE Spec2Model ----
(***************************************************************************)
(* Stripping of clustering variables after cluster-preserve quantization   *)
(* aware training (CQAT): cluster_utils.py.                                *)
(*                                                                         *)
(*   _type_model             the model-shape classifier                    *)
(*   _get_clustered_weights  the weight materializer                       *)
(*   strip_clustering_cqat   the stripper and its per-layer transform      *)
(*                           _strip_clustering_ops                         *)
(*                                                                         *)
(* Python objects live in a heap (object id -> record) so that identity    *)
(* and in-place mutation are visible; tf.Variables live in a second heap   *)
(* (variable id -> tensor).  Names are sequences of characters, so that    *)
(* Python's `marker in name` is a substring test.                          *)
(***************************************************************************)
EXTENDS Integers, Sequences, FiniteSets, TLC

VARIABLES
  pc,                \* position in strip_clustering_cqat / in the materializer run
  heap,              \* object id -> Python object (layers, models, other)
  vars,              \* variable id -> current tensor value of the tf.Variable
  flags,             \* the tuple _type_model returned (or NotComputed)
  idx,               \* loop index i of the subclassed loop (1-based)
  to_strip_model,    \* local to_strip_model of the subclassed branch (object id)
  ret,               \* object id strip returned (or NoObject)
  err,               \* exception that left strip (or NoError)
  errAt,             \* history: layer whose transform raised (or NoObject)
  calls,             \* history: layers _strip_clustering_ops was applied to, in order
  topCalls,          \* history: arguments of the calls made by strip itself
  topRets,           \* history: return values of the calls made by strip itself
  heap0,             \* history: heap when strip was called
  vars0,             \* history: variable values when strip was called
  cluster_indices,   \* argument of a direct _get_clustered_weights call
  cluster_centroids, \* argument of a direct _get_clustered_weights call
  device,            \* device the gather kernel runs on
  clst_weights       \* outcome of the direct _get_clustered_weights call

stripVars == <<pc, heap, vars, flags, idx, to_strip_model, ret, err, errAt,
               calls, topCalls, topRets, heap0, vars0>>
matVars == <<cluster_indices, cluster_centroids, device, clst_weights>>
allVars == <<stripVars, matVars>>

----------------------------------------------------------------------------
(* Names and Python's substring test `marker in name`.                      *)

CENTROIDS_MARKER == <<"c","l","u","s","t","e","r","_","c","e","n","t","r","o","i","d","s","_","t","f">>
INDICES_MARKER == <<"p","u","l","l","i","n","g","_","i","n","d","i","c","e","s","_","t","f">>
ORI_MARKER == <<"o","r","i","_","w","e","i","g","h","t","s","_","v","a","r","s","_","t","f">>
KERNEL_MARKER == <<"k","e","r","n","e","l",":","0">>
DEPTHWISE_MARKER == <<"d","e","p","t","h","w","i","s","e">>

\* `marker in name` on Python strings
In(marker, name) ==
  \E s \in 0..(Len(name) - Len(marker)) :
    \A k \in 1..Len(marker) : name[s + k] = marker[k]

----------------------------------------------------------------------------
(* Tensors: a shape and a value at every position (0-based index tuples).   *)

RECURSIVE Positions(_)
Positions(shape) ==
  IF shape = <<>> THEN {<<>>}
  ELSE {<<i>> \o p : i \in 0..(Head(shape) - 1), p \in Positions(Tail(shape))}

RECURSIVE NumElements(_)
NumElements(shape) ==
  IF shape = <<>> THEN 1 ELSE Head(shape) * NumElements(Tail(shape))

Front(s) == SubSeq(s, 1, Len(s) - 1)
Last(s) == s[Len(s)]

\* row-major offset of position p in a tensor of the given shape
RECURSIVE Ravel(_, _)
Ravel(p, shape) ==
  IF shape = <<>> THEN 0
  ELSE Ravel(Front(p), Front(shape)) * Last(shape) + Last(p)

\* position with row-major offset k in a tensor of the given shape
RECURSIVE Unravel(_, _)
Unravel(k, shape) ==
  IF shape = <<>> THEN <<>>
  ELSE Unravel(k \div Last(shape), Front(shape)) \o <<k % Last(shape)>>

Tensor(shape, f) == [shape |-> shape, at |-> f]

\* tf.reshape(t, shape): same elements in row-major order
Reshape(t, shape) ==
  Tensor(shape, [p \in Positions(shape) |-> t.at[Unravel(Ravel(p, shape), t.shape)]])

\* tf.gather(params, indices) with 1-D params: out of range indices are an
\* error on CPU and read as 0 on GPU
GatherInRange(params, indices) ==
  \A p \in Positions(indices.shape) :
    indices.at[p] \in 0..(params.shape[1] - 1)

Gather(params, indices) ==
  Tensor(indices.shape,
         [p \in Positions(indices.shape) |->
            IF indices.at[p] \in 0..(params.shape[1] - 1)
            THEN params.at[<<indices.at[p]>>]
            ELSE 0])

\* faulty variant: the gathered values are returned flat
GetClusteredWeightsNoReshape(indices, centroids, dev) ==
  LET flat == Reshape(indices, <<NumElements(indices.shape)>>)
  IN  IF dev = "CPU" /\ ~GatherInRange(centroids, flat)
      THEN [raised |-> TRUE, value |-> Tensor(<<>>, <<>>)]
      ELSE [raised |-> FALSE, value |-> Gather(centroids, flat)]

\* _get_clustered_weights: [raised, value]
GetClusteredWeights(indices, centroids, dev) ==
  LET flat == Reshape(indices, <<NumElements(indices.shape)>>)
  IN  IF dev = "CPU" /\ ~GatherInRange(centroids, flat)
      THEN [raised |-> TRUE, value |-> Tensor(<<>>, <<>>)]
      ELSE [raised |-> FALSE,
            value |-> Reshape(Gather(centroids, flat), indices.shape)]

----------------------------------------------------------------------------
(* Python objects.  cls is the object's class; Sequential is a subclass of  *)
(* tf.keras.Model and Model a subclass of tf.keras.layers.Layer.  A layer   *)
(* with has_layer has the attribute `layer` (a wrapper); inner_cls is the   *)
(* class of layer.layer; DepthwiseConv2D is a subclass of Conv2D.           *)

NoObject == 0 - 1
NoError == "no error"
NotComputed == <<>>
None == <<>>

InvalidInputType == "ValueError: Expected to_strip to be a tf.keras.Model or tf.keras.layers.Layer instance"
UnsupportedInputType == "ValueError: Strip clustering cannot be applied"
MissingClusteringState == "ValueError: Expected layer to stripped to contain clustering nodes"
UnboundLocalError == "UnboundLocalError: local variable referenced before assignment"
AttributeError == "AttributeError: object has no attribute model"
InvalidArgumentError == "InvalidArgumentError: indices out of range"
AssignShapeError == "ValueError: shapes are incompatible"

IsInstanceModel(o) == o.cls \in {"Model", "Sequential"}
IsInstanceSequential(o) == o.cls = "Sequential"
IsInstanceLayer(o) == o.cls \in {"Layer", "Model", "Sequential"}
IsInstanceConv2D(c) == c \in {"Conv2D", "DepthwiseConv2D"}
IsInstanceDense(c) == c = "Dense"

\* _type_model: (is_sequential_or_functional, is_keras_layer, is_subclassed_model)
TypeModel(model) ==
  << IsInstanceModel(model)
       /\ (IsInstanceSequential(model) \/ model._is_graph_network),
     IsInstanceLayer(model) /\ ~IsInstanceModel(model),
     IsInstanceModel(model) /\ ~model._is_graph_network >>

----------------------------------------------------------------------------
(* Variables of a layer.  A variable id is <<layer id, slot>>; the slot     *)
(* fixes the variable's name.                                               *)

SlotName(slot) ==
  CASE slot = 1 -> <<"d","e","n","s","e","/","k","e","r","n","e","l",":","0">>
    [] slot = 2 -> <<"d","e","n","s","e","/","b","i","a","s",":","0">>
    [] slot = 3 -> <<"q","u","a","n","t","_","d","e","n","s","e","/">> \o CENTROIDS_MARKER \o <<":","0">>
    [] slot = 4 -> <<"q","u","a","n","t","_","d","e","n","s","e","/">> \o INDICES_MARKER \o <<":","0">>
    [] slot = 5 -> <<"q","u","a","n","t","_","d","e","n","s","e","/">> \o ORI_MARKER \o <<":","0">>
    [] slot = 6 -> <<"q","u","a","n","t","_","d","e","n","s","e","/","k","e","r","n","e","l","_","m","i","n",":","0">>
    [] slot = 7 -> <<"q","u","a","n","t","_","d","e","n","s","e","/">> \o CENTROIDS_MARKER \o <<"_","1",":","0">>
    [] slot = 8 -> <<"d","e","n","s","e","_","1","/","k","e","r","n","e","l",":","0">>
    [] slot = 9 -> <<"q","u","a","n","t","_","d","e","n","s","e","/">> \o ORI_MARKER \o <<"_","1",":","0">>

\* v.name
VarName(v) == SlotName(v[2])

Range(s) == {s[k] : k \in 1..Len(s)}

RECURSIVE Dedup(_, _)
Dedup(s, seen) ==
  IF s = <<>> THEN <<>>
  ELSE IF Head(s) \in seen THEN Dedup(Tail(s), seen)
  ELSE <<Head(s)>> \o Dedup(Tail(s), seen \cup {Head(s)})

\* layer.weights of a wrapper: its own and its inner layer's variables,
\* trainable ones first, each once
Weights(layer) ==
  Dedup(layer._trainable_weights \o layer.inner_weights
          \o layer._non_trainable_weights, {})

----------------------------------------------------------------------------
(* _strip_clustering_ops, lines 87-139.  The interpreter state threaded     *)
(* through a call is s = [heap, vars, calls]; a call's outcome adds ret     *)
(* (the object returned), err (the exception raised) and errAt.             *)

Returned(s, obj) ==
  [heap |-> s.heap, vars |-> s.vars, calls |-> s.calls,
   ret |-> obj, err |-> NoError, errAt |-> NoObject]

Raised(s, e, at) ==
  [heap |-> s.heap, vars |-> s.vars, calls |-> s.calls,
   ret |-> NoObject, err |-> e, errAt |-> at]

\* faulty variant: the name of the inner layer is not looked at
MatchesIgnoringName(layer) ==
  /\ layer.has_layer
  /\ IsInstanceConv2D(layer.inner_cls) \/ IsInstanceDense(layer.inner_cls)

\* lines 100-103: the layer is a wrapper around a Conv2D or Dense layer
\* whose name does not contain 'depthwise'
Matches(layer) ==
  /\ layer.has_layer
  /\ ~In(DEPTHWISE_MARKER, layer.inner_name)
  /\ IsInstanceConv2D(layer.inner_cls) \/ IsInstanceDense(layer.inner_cls)

\* a local name of the function: unbound until the first assignment
Unbound == [bound |-> FALSE, v |-> None]
Bound(v) == [bound |-> TRUE, v |-> v]

\* faulty variant: the first match is kept
RECURSIVE ScanFirst(_, _, _)
ScanFirst(weights, marker, found) ==
  IF weights = <<>> THEN found
  ELSE ScanFirst(Tail(weights), marker,
                 IF In(marker, VarName(Head(weights))) /\ ~found.bound
                 THEN Bound(Head(weights)) ELSE found)

\* lines 105-107 and 108-110: for v in weights: if marker in v.name: found = v
RECURSIVE Scan(_, _, _)
Scan(weights, marker, found) ==
  IF weights = <<>> THEN found
  ELSE Scan(Tail(weights), marker,
            IF In(marker, VarName(Head(weights)))
            THEN Bound(Head(weights)) ELSE found)

\* lines 111-113: `clst_indices is None or clst_centroids is None`, evaluated
\* left to right; reading an unbound local raises UnboundLocalError
MissingCheck(clst_indices, clst_centroids) ==
  IF ~clst_indices.bound THEN UnboundLocalError
  ELSE IF clst_indices.v = None THEN MissingClusteringState
  ELSE IF ~clst_centroids.bound THEN UnboundLocalError
  ELSE IF clst_centroids.v = None THEN MissingClusteringState
  ELSE NoError

\* lines 118-120: assign to every variable of layer.weights named 'kernel:0';
\* Variable.assign raises on a value of another shape
RECURSIVE AssignKernels(_, _, _)
AssignKernels(vs, weights, value) ==
  IF weights = <<>> THEN [vars |-> vs, raised |-> FALSE]
  ELSE IF In(KERNEL_MARKER, VarName(Head(weights)))
       THEN IF vs[Head(weights)].shape # value.shape
            THEN [vars |-> vs, raised |-> TRUE]
            ELSE AssignKernels([vs EXCEPT ![Head(weights)] = value],
                               Tail(weights), value)
       ELSE AssignKernels(vs, Tail(weights), value)

\* faulty variant: the original weights are kept
RECURSIVE FilterTrainableCentroidsOnly(_)
FilterTrainableCentroidsOnly(weights) ==
  IF weights = <<>> THEN <<>>
  ELSE IF In(CENTROIDS_MARKER, VarName(Head(weights)))
       THEN FilterTrainableCentroidsOnly(Tail(weights))
       ELSE <<Head(weights)>> \o FilterTrainableCentroidsOnly(Tail(weights))

\* lines 124-130
RECURSIVE FilterTrainable(_)
FilterTrainable(weights) ==
  IF weights = <<>> THEN <<>>
  ELSE IF In(CENTROIDS_MARKER, VarName(Head(weights)))
          \/ In(ORI_MARKER, VarName(Head(weights)))
       THEN FilterTrainable(Tail(weights))
       ELSE <<Head(weights)>> \o FilterTrainable(Tail(weights))

\* faulty variant: the scan stops at the index variable
RECURSIVE FilterNonTrainableDropsRest(_)
FilterNonTrainableDropsRest(weights) ==
  IF weights = <<>> THEN <<>>
  ELSE IF In(INDICES_MARKER, VarName(Head(weights)))
       THEN <<>>
       ELSE <<Head(weights)>> \o FilterNonTrainableDropsRest(Tail(weights))

\* lines 132-137
RECURSIVE FilterNonTrainable(_)
FilterNonTrainable(weights) ==
  IF weights = <<>> THEN <<>>
  ELSE IF In(INDICES_MARKER, VarName(Head(weights)))
       THEN FilterNonTrainable(Tail(weights))
       ELSE <<Head(weights)>> \o FilterNonTrainable(Tail(weights))

\* lines 104-137: the body run on a matching wrapper
StripMatching(s, lid) ==
  LET layer == s.heap[lid]
      clst_centroids == Scan(layer._trainable_weights, CENTROIDS_MARKER, Unbound)
      clst_indices == Scan(layer._non_trainable_weights, INDICES_MARKER, Unbound)
      missing == MissingCheck(clst_indices, clst_centroids)
  IN  IF missing # NoError THEN Raised(s, missing, lid)
      ELSE
        LET w == GetClusteredWeights(s.vars[clst_indices.v],
                                     s.vars[clst_centroids.v], device)
        IN  IF w.raised THEN Raised(s, InvalidArgumentError, lid)
            ELSE
              LET a == AssignKernels(s.vars, Weights(layer), w.value)
                  s1 == [s EXCEPT !.vars = a.vars]
              IN  IF a.raised THEN Raised(s1, AssignShapeError, lid)
                  ELSE Returned(
                         [s1 EXCEPT
                            !.heap[lid]._trainable_weights =
                               FilterTrainable(layer._trainable_weights),
                            !.heap[lid]._non_trainable_weights =
                               FilterNonTrainable(layer._non_trainable_weights)],
                         lid)

\* faulty variant: the collections are filtered before the missing-state test
StripLayerFilterFirst(s, lid) ==
  IF Matches(s.heap[lid])
  THEN LET layer == s.heap[lid]
           s1 == [s EXCEPT
                    !.heap[lid]._trainable_weights =
                       FilterTrainable(layer._trainable_weights),
                    !.heap[lid]._non_trainable_weights =
                       FilterNonTrainable(layer._non_trainable_weights)]
           r == StripMatching(s, lid)
       IN  IF r.err = NoError THEN r ELSE Raised(s1, r.err, lid)
  ELSE Returned(s, lid)

\* lines 100-139: the transform of an object that is not a Model
StripLayer(s, lid) ==
  IF Matches(s.heap[lid])
  THEN StripMatching(s, lid)
  ELSE Returned(s, lid)

Max(S) == CHOOSE x \in S : \A y \in S : y <= x

RECURSIVE StripClusteringOps(_, _)
RECURSIVE CloneLayers(_, _, _)

\* tf.keras.models.clone_model(model, input_tensors=None, clone_function=
\* _strip_clustering_ops): a new model of the same topology whose layers are
\* clone_function(layer) for each layer of the model, in order
CloneModel(s, mid) ==
  LET m == CloneLayers(s, s.heap[mid]._self_tracked_trackables, <<>>)
  IN  IF m.err # NoError THEN m
      ELSE LET new == Max(DOMAIN m.heap) + 1
               clone == [s.heap[mid] EXCEPT !._self_tracked_trackables = m.ret]
           IN  Returned([m EXCEPT !.heap = (new :> clone) @@ m.heap], new)

\* the clone's pass over the layers: ret collects the transformed layers
CloneLayers(s, layers, done) ==
  IF layers = <<>> THEN Returned(s, done)
  ELSE LET r == StripClusteringOps(s, Head(layers))
       IN  IF r.err # NoError THEN r
           ELSE CloneLayers([heap |-> r.heap, vars |-> r.vars, calls |-> r.calls],
                            Tail(layers), Append(done, r.ret))

\* _strip_clustering_ops(layer)
StripClusteringOps(s, lid) ==
  LET s1 == [s EXCEPT !.calls = Append(@, lid)]
  IN  IF IsInstanceModel(s.heap[lid])
      THEN CloneModel(s1, lid)
      ELSE StripLayer(s1, lid)

----------------------------------------------------------------------------
(* The inputs strip is called on.                                           *)

MaxLayers == 2        \* entries of a model's layer list
MaxNested == 1        \* layers of a nested model
MaxIndex == 2         \* largest entry of an index tensor handed to the materializer
MaxCentroids == 2     \* longest centroid sequence handed to the materializer

Const(shape, c) == Tensor(shape, [p \in Positions(shape) |-> c])
Vec(values) ==
  Tensor(<<Len(values)>>, [p \in Positions(<<Len(values)>>) |-> values[p[1] + 1]])
FromRows(rows) ==
  Tensor(<<Len(rows), Len(rows[1])>>,
         [p \in Positions(<<Len(rows), Len(rows[1])>>) |-> rows[p[1] + 1][p[2] + 1]])

KernelShape == <<2, 2>>

IndexChoices ==
  { FromRows(<< <<0, 1>>, <<0, 1>> >>), FromRows(<< <<1, 0>>, <<0, 0>> >>),
    Vec(<<1, 0>>) }
CentroidChoices == { Vec(<<10, 20>>), Vec(<<30, 40, 50>>) }

InnerNames ==
  { <<"d","e","n","s","e">>, <<"c","o","n","v","2","d">>,
    <<"d","e","p","t","h","w","i","s","e","_","c","o","n","v","2","d">>,
    <<"r","e","_","l","u">> }
InnerClasses == {"Dense", "Conv2D", "DepthwiseConv2D", "ReLU"}

\* _trainable_weights and _non_trainable_weights, as slots
TrainableChoices ==
  { <<1, 2, 3, 5>>, <<1, 2, 5>>, <<1, 2>>, <<3, 1, 7, 5>>, <<2, 3, 5>>,
    <<1, 8, 3>>, <<8, 1, 3, 5>> }
NonTrainableChoices == { <<4, 6>>, <<6>>, <<6, 4, 9>>, <<>> }

WrapperConfigs ==
  [has_layer : {TRUE}, inner_name : InnerNames, inner_cls : InnerClasses,
   tw : TrainableChoices, ntw : NonTrainableChoices,
   indices : IndexChoices, centroids : CentroidChoices]

PlainConfigs ==
  [has_layer : {FALSE}, inner_name : {<<>>}, inner_cls : {"none"},
   tw : TrainableChoices, ntw : NonTrainableChoices,
   indices : {FromRows(<< <<0, 1>>, <<0, 1>> >>)}, centroids : {Vec(<<10, 20>>)}]

Config(name, c, tw, ntw, indices, centroids) ==
  [has_layer |-> TRUE, inner_name |-> name, inner_cls |-> c, tw |-> tw,
   ntw |-> ntw, indices |-> indices, centroids |-> centroids]

QuantDense ==
  Config(<<"d","e","n","s","e">>, "Dense", <<1, 2, 3, 5>>, <<4, 6>>,
         FromRows(<< <<0, 1>>, <<0, 1>> >>), Vec(<<10, 20>>))
QuantConv ==
  Config(<<"c","o","n","v","2","d">>, "Conv2D", <<3, 1, 7, 5>>, <<4, 6>>,
         FromRows(<< <<1, 0>>, <<0, 0>> >>), Vec(<<30, 40, 50>>))
QuantDepthwise ==
  Config(<<"d","e","p","t","h","w","i","s","e","_","c","o","n","v","2","d">>,
         "DepthwiseConv2D", <<1, 2, 3, 5>>, <<4, 6>>,
         FromRows(<< <<0, 1>>, <<0, 1>> >>), Vec(<<10, 20>>))
QuantDenseNoCentroids ==
  Config(<<"d","e","n","s","e">>, "Dense", <<1, 2, 5>>, <<4, 6>>,
         FromRows(<< <<0, 1>>, <<0, 1>> >>), Vec(<<10, 20>>))
Activation ==
  [has_layer |-> FALSE, inner_name |-> <<>>, inner_cls |-> "none", tw |-> <<>>,
   ntw |-> <<>>, indices |-> FromRows(<< <<0, 1>>, <<0, 1>> >>),
   centroids |-> Vec(<<10, 20>>)]

ModelLayerPool == {QuantDense, QuantConv, QuantDepthwise, QuantDenseNoCentroids, Activation}
NestedLayerPool == {QuantDense, QuantDepthwise}

SeqsUpTo(S, n) == UNION {[1..k -> S] : k \in 0..n}

Entries ==
  [kind : {"layer"}, cfg : ModelLayerPool, layers : {<<>>}]
    \cup [kind : {"model"}, cfg : {Activation}, layers : SeqsUpTo(NestedLayerPool, MaxNested)]

SlotInit(slot, cfg) ==
  CASE slot = 1 -> Const(KernelShape, 5)
    [] slot = 2 -> Const(<<2>>, 1)
    [] slot = 3 -> cfg.centroids
    [] slot = 4 -> cfg.indices
    [] slot = 5 -> Const(KernelShape, 9)
    [] slot = 6 -> Const(<<1>>, 0 - 6)
    [] slot = 7 -> Tensor(cfg.centroids.shape,
                          [p \in Positions(cfg.centroids.shape) |-> cfg.centroids.at[p] + 1])
    [] slot = 8 -> Const(<<2>>, 5)
    [] slot = 9 -> Const(KernelShape, 9)

InnerSlots(cfg) == IF cfg.has_layer THEN <<1, 2>> ELSE <<>>

Ids(lid, slots) == [k \in 1..Len(slots) |-> <<lid, slots[k]>>]

MkLayer(lid, cfg) ==
  [cls |-> "Layer", has_layer |-> cfg.has_layer, inner_name |-> cfg.inner_name,
   inner_cls |-> cfg.inner_cls,
   _trainable_weights |-> Ids(lid, cfg.tw),
   _non_trainable_weights |-> Ids(lid, cfg.ntw),
   inner_weights |-> Ids(lid, InnerSlots(cfg))]

MkVars(lid, cfg) ==
  [v \in {<<lid, slot>> : slot \in Range(cfg.tw) \cup Range(cfg.ntw)
                                   \cup Range(InnerSlots(cfg))}
     |-> SlotInit(v[2], cfg)]

MkModel(c, graph, has_model, model, layers) ==
  [cls |-> c, _is_graph_network |-> graph, has_model |-> has_model,
   model |-> model, _self_tracked_trackables |-> layers, has_layer |-> FALSE]

RECURSIVE MergeAll(_)
MergeAll(fs) == IF fs = <<>> THEN <<>> ELSE Head(fs) @@ MergeAll(Tail(fs))

EntryId(k) == 10 * k

EntryHeap(k, e) ==
  IF e.kind = "layer" THEN EntryId(k) :> MkLayer(EntryId(k), e.cfg)
  ELSE (EntryId(k) :> MkModel("Model", TRUE, FALSE, NoObject,
                              [j \in 1..Len(e.layers) |-> EntryId(k) + j]))
       @@ MergeAll([j \in 1..Len(e.layers) |->
                      (EntryId(k) + j) :> MkLayer(EntryId(k) + j, e.layers[j])])

EntryVars(k, e) ==
  IF e.kind = "layer" THEN MkVars(EntryId(k), e.cfg)
  ELSE MergeAll([j \in 1..Len(e.layers) |-> MkVars(EntryId(k) + j, e.layers[j])])

\* the object passed to strip is object 0
ToStrip == 0

ModelScenario(c, graph, has_model, es) ==
  LET ids == [k \in 1..Len(es) |-> EntryId(k)]
  IN  [heap |-> (ToStrip :> MkModel(c, graph, has_model,
                                    IF has_model THEN 1 ELSE NoObject,
                                    IF has_model THEN <<1>> ELSE ids))
                @@ (IF has_model
                    THEN 1 :> MkModel("Model", TRUE, FALSE, NoObject, ids)
                    ELSE <<>>)
                @@ MergeAll([k \in 1..Len(es) |-> EntryHeap(k, es[k])]),
       vars |-> MergeAll([k \in 1..Len(es) |-> EntryVars(k, es[k])])]

Scenarios ==
  { [heap |-> ToStrip :> [cls |-> "object", has_layer |-> FALSE], vars |-> <<>>] }
  \cup { [heap |-> ToStrip :> MkLayer(ToStrip, cfg), vars |-> MkVars(ToStrip, cfg)] :
           cfg \in WrapperConfigs \cup PlainConfigs }
  \cup { ModelScenario(c, graph, has_model, es) :
           c \in {"Model", "Sequential"}, graph \in BOOLEAN, has_model \in BOOLEAN,
           es \in SeqsUpTo(Entries, MaxLayers) }

----------------------------------------------------------------------------
(* strip_clustering_cqat(to_strip), lines 62-161.                           *)

Init ==
  /\ \E sc \in Scenarios : heap = sc.heap /\ vars = sc.vars
  /\ heap0 = heap
  /\ vars0 = vars
  /\ pc = "called"
  /\ flags = NotComputed
  /\ idx = 0
  /\ to_strip_model = NoObject
  /\ ret = NoObject
  /\ err = NoError
  /\ errAt = NoObject
  /\ calls = <<>>
  /\ topCalls = <<>>
  /\ topRets = <<>>
  /\ cluster_indices = None
  /\ cluster_centroids = None
  /\ clst_weights = None
  /\ device = "CPU"

\* faulty variant: a layer that is not a model is refused
NotModelOnly(o) == ~IsInstanceModel(o)

\* lines 81-82: the test guarding the first raise
NotModelNorLayer(o) == ~IsInstanceModel(o) /\ ~IsInstanceLayer(o)

\* lines 81-85
CheckInput ==
  /\ pc = "called"
  /\ IF NotModelNorLayer(heap[ToStrip])
     THEN pc' = "raised" /\ err' = InvalidInputType
     ELSE pc' = "classify" /\ err' = err
  /\ UNCHANGED <<heap, vars, flags, idx, to_strip_model, ret, errAt, calls,
                 topCalls, topRets, heap0, vars0, matVars>>

\* lines 141-142
Classify ==
  /\ pc = "classify"
  /\ flags' = TypeModel(heap[ToStrip])
  /\ pc' = "dispatch"
  /\ UNCHANGED <<heap, vars, idx, to_strip_model, ret, err, errAt, calls,
                 topCalls, topRets, heap0, vars0, matVars>>

Here == [heap |-> heap, vars |-> vars, calls |-> calls]

\* the outcome r of a call leaves strip: its return value is strip's
Leave(r) ==
  /\ heap' = r.heap
  /\ vars' = r.vars
  /\ calls' = r.calls
  /\ ret' = r.ret
  /\ err' = r.err
  /\ errAt' = r.errAt
  /\ pc' = IF r.err = NoError THEN "returned" ELSE "raised"

\* lines 145-147
StripComposed ==
  /\ pc = "dispatch"
  /\ flags[1]
  /\ Leave(CloneModel(Here, ToStrip))
  /\ UNCHANGED <<flags, idx, to_strip_model, topCalls, topRets, heap0, vars0, matVars>>

\* lines 148-150
StripKerasLayer ==
  /\ pc = "dispatch"
  /\ ~flags[1] /\ flags[2]
  /\ IF IsInstanceLayer(heap[ToStrip])
     THEN LET r == StripClusteringOps(Here, ToStrip)
          IN  /\ Leave(r)
              /\ topCalls' = Append(topCalls, ToStrip)
              /\ topRets' = IF r.err = NoError THEN Append(topRets, r.ret) ELSE topRets
     ELSE /\ pc' = "returned"
          /\ UNCHANGED <<heap, vars, calls, ret, err, errAt, topCalls, topRets>>
  /\ UNCHANGED <<flags, idx, to_strip_model, heap0, vars0, matVars>>

\* lines 151-152 and 157-161: the subclassed branch reads to_strip.model;
\* the final else raises
StripSubclassedEnter ==
  /\ pc = "dispatch"
  /\ ~flags[1] /\ ~flags[2]
  /\ IF flags[3]
     THEN IF heap[ToStrip].has_model
          THEN /\ to_strip_model' = heap[ToStrip].model
               /\ idx' = 1
               /\ pc' = "loop"
               /\ err' = err
          ELSE /\ pc' = "raised"
               /\ err' = AttributeError
               /\ UNCHANGED <<to_strip_model, idx>>
     ELSE /\ pc' = "raised"
          /\ err' = UnsupportedInputType
          /\ UNCHANGED <<to_strip_model, idx>>
  /\ UNCHANGED <<heap, vars, flags, ret, errAt, calls, topCalls, topRets,
                 heap0, vars0, matVars>>

\* faulty variant: the input is returned
LoopResultInput == ToStrip

\* the object strip returns after the loop (line 156)
LoopResult == to_strip_model

\* lines 153-155: one iteration of the loop
StripSubclassedStep ==
  /\ pc = "loop"
  /\ idx <= Len(heap[to_strip_model]._self_tracked_trackables)
  /\ LET layer == heap[to_strip_model]._self_tracked_trackables[idx]
         r == StripClusteringOps(Here, layer)
     IN  /\ vars' = r.vars
         /\ calls' = r.calls
         /\ topCalls' = Append(topCalls, layer)
         /\ IF r.err = NoError
            THEN /\ heap' = [r.heap EXCEPT
                               ![to_strip_model]._self_tracked_trackables[idx] = r.ret]
                 /\ topRets' = Append(topRets, r.ret)
                 /\ idx' = idx + 1
                 /\ UNCHANGED <<pc, err, errAt>>
            ELSE /\ heap' = r.heap
                 /\ pc' = "raised"
                 /\ err' = r.err
                 /\ errAt' = r.errAt
                 /\ UNCHANGED <<topRets, idx>>
  /\ UNCHANGED <<flags, to_strip_model, ret, heap0, vars0, matVars>>

\* line 156
StripSubclassedReturn ==
  /\ pc = "loop"
  /\ idx > Len(heap[to_strip_model]._self_tracked_trackables)
  /\ ret' = LoopResult
  /\ pc' = "returned"
  /\ UNCHANGED <<heap, vars, flags, idx, to_strip_model, err, errAt, calls,
                 topCalls, topRets, heap0, vars0, matVars>>

Next ==
  \/ CheckInput
  \/ Classify
  \/ StripComposed
  \/ StripKerasLayer
  \/ StripSubclassedEnter
  \/ StripSubclassedStep
  \/ StripSubclassedReturn

Spec == Init /\ [][Next]_allVars

----------------------------------------------------------------------------
(* _get_clustered_weights called on its own, on any index tensor and any    *)
(* centroid sequence.                                                       *)

MatShapes == { <<1>>, <<3>>, <<1, 2>>, <<2, 1>>, <<2, 2>>, <<2, 3>> }
CentroidValues == {10, 20}

IndexTensors ==
  UNION { { Tensor(shape, f) : f \in [Positions(shape) -> 0..MaxIndex] } :
          shape \in MatShapes }
CentroidTensors ==
  UNION { { Tensor(<<n>>, f) : f \in [Positions(<<n>>) -> CentroidValues] } :
          n \in 1..MaxCentroids }

InitMat ==
  /\ cluster_indices \in IndexTensors
  /\ cluster_centroids \in CentroidTensors
  /\ device \in {"CPU", "GPU"}
  /\ clst_weights = None
  /\ pc = "mat_called"
  /\ heap = <<>>
  /\ vars = <<>>
  /\ heap0 = <<>>
  /\ vars0 = <<>>
  /\ flags = NotComputed
  /\ idx = 0
  /\ to_strip_model = NoObject
  /\ ret = NoObject
  /\ err = NoError
  /\ errAt = NoObject
  /\ calls = <<>>
  /\ topCalls = <<>>
  /\ topRets = <<>>

\* lines 44-59
Materialize ==
  /\ pc = "mat_called"
  /\ LET w == GetClusteredWeights(cluster_indices, cluster_centroids, device)
     IN  IF w.raised
         THEN pc' = "mat_raised" /\ err' = InvalidArgumentError
                /\ clst_weights' = clst_weights
         ELSE pc' = "mat_returned" /\ err' = err /\ clst_weights' = w.value
  /\ UNCHANGED <<heap, vars, flags, idx, to_strip_model, ret, errAt, calls,
                 topCalls, topRets, heap0, vars0, cluster_indices,
                 cluster_centroids, device>>

NextMat == Materialize

SpecMat == InitMat /\ [][NextMat]_allVars

----------------------------------------------------------------------------
(* Vocabulary of the properties.                                            *)

\* the layers (objects that are not models) of the object `id` in heap h
RECURSIVE LayersUnder(_, _)
LayersUnder(h, id) ==
  IF IsInstanceModel(h[id])
  THEN UNION { LayersUnder(h, h[id]._self_tracked_trackables[k]) :
               k \in 1..Len(h[id]._self_tracked_trackables) }
  ELSE {id}

ResultLayers == IF ret = NoObject THEN {} ELSE LayersUnder(heap, ret)

\* a quantization-aware wrapper around a non-depthwise convolution or dense layer
IsTarget(layer) ==
  /\ layer.cls = "Layer"
  /\ layer.has_layer
  /\ layer.inner_cls \in {"Conv2D", "DepthwiseConv2D", "Dense"}
  /\ ~In(DEPTHWISE_MARKER, layer.inner_name)

HasMarker(weights, marker) == \E k \in 1..Len(weights) : In(marker, VarName(weights[k]))

\* the last variable of the collection whose name contains the marker
LastWith(weights, marker) ==
  weights[Max({k \in 1..Len(weights) : In(marker, VarName(weights[k]))})]

LacksClusteringState(layer) ==
  \/ ~HasMarker(layer._trainable_weights, CENTROIDS_MARKER)
  \/ ~HasMarker(layer._non_trainable_weights, INDICES_MARKER)

VarsOfLayer(l) == {v \in DOMAIN vars0 : v[1] = l}

LayerUntouched(l) ==
  /\ heap[l] = heap0[l]
  /\ \A v \in VarsOfLayer(l) : vars[v] = vars0[v]

KeptTrainable(v) ==
  ~In(CENTROIDS_MARKER, VarName(v)) /\ ~In(ORI_MARKER, VarName(v))
KeptNonTrainable(v) == ~In(INDICES_MARKER, VarName(v))

\* layer l has been through the transform without an error
Transformed(l) == l \in Range(calls) /\ errAt # l

CollectionsFiltered(l) ==
  /\ heap[l]._trainable_weights = SelectSeq(heap0[l]._trainable_weights, KeptTrainable)
  /\ heap[l]._non_trainable_weights =
       SelectSeq(heap0[l]._non_trainable_weights, KeptNonTrainable)

----------------------------------------------------------------------------
(* C1: after strip has returned, in every wrapper of the result whose inner *)
(* layer is a non-depthwise convolution or dense layer, each kernel         *)
(* variable has the shape of the layer's pre-strip index variable and holds *)
(* at every position p the pre-strip centroid[index[p]].                    *)
C1_KernelIsGatheredCentroids ==
  pc = "returned" =>
    \A l \in ResultLayers :
      IsTarget(heap0[l]) =>
        LET index == vars0[LastWith(heap0[l]._non_trainable_weights, INDICES_MARKER)]
            centroid == vars0[LastWith(heap0[l]._trainable_weights, CENTROIDS_MARKER)]
        IN  \A v \in VarsOfLayer(l) :
              In(KERNEL_MARKER, VarName(v)) =>
                /\ vars[v].shape = index.shape
                /\ DOMAIN vars[v].at = DOMAIN index.at
                /\ \A p \in DOMAIN index.at : vars[v].at[p] = centroid.at[<<index.at[p]>>]

\* a returned strip with a stripped wrapper that carried two centroid variables
C1_Witness ==
  /\ pc = "returned"
  /\ \E l \in ResultLayers :
       /\ IsTarget(heap0[l])
       /\ Cardinality({k \in 1..Len(heap0[l]._trainable_weights) :
                         In(CENTROIDS_MARKER, VarName(heap0[l]._trainable_weights[k]))}) = 2
       /\ \E v \in VarsOfLayer(l) : In(KERNEL_MARKER, VarName(v)) /\ vars[v] # vars0[v]

(* C2 as stated: after strip has returned, no layer of the result has, in   *)
(* its trainable or non-trainable collection, a variable named with one of  *)
(* the three clustering markers.                                            *)
C2_NoClusteringVariableLeft ==
  pc = "returned" =>
    \A l \in ResultLayers :
      \A m \in {CENTROIDS_MARKER, INDICES_MARKER, ORI_MARKER} :
        /\ ~HasMarker(heap[l]._trainable_weights, m)
        /\ ~HasMarker(heap[l]._non_trainable_weights, m)

(* C2 amended: after strip has returned, every wrapper of the result whose  *)
(* inner layer is a non-depthwise convolution or dense layer has no         *)
(* centroid and no original-weights variable in its trainable collection    *)
(* and no index variable in its non-trainable collection.                   *)
C2_NoClusteringVariableLeftInStripped ==
  pc = "returned" =>
    \A l \in ResultLayers :
      IsTarget(heap0[l]) =>
        /\ ~HasMarker(heap[l]._trainable_weights, CENTROIDS_MARKER)
        /\ ~HasMarker(heap[l]._trainable_weights, ORI_MARKER)
        /\ ~HasMarker(heap[l]._non_trainable_weights, INDICES_MARKER)

\* a returned model holding a stripped wrapper that carried all three kinds
C2_Witness ==
  /\ pc = "returned"
  /\ IsInstanceModel(heap[ret])
  /\ \E l \in ResultLayers :
       /\ IsTarget(heap0[l])
       /\ HasMarker(heap0[l]._trainable_weights, CENTROIDS_MARKER)
       /\ HasMarker(heap0[l]._trainable_weights, ORI_MARKER)
       /\ HasMarker(heap0[l]._non_trainable_weights, INDICES_MARKER)

(* C3 as stated: the transform applied to a wrapper around a non-depthwise  *)
(* convolution or dense layer that lacks a centroid variable in its         *)
(* trainable collection or an index variable in its non-trainable one fails *)
(* with MissingClusteringState, and that error leaves strip.                *)
C3_MissingStateRaisesValueError ==
  \A l \in Range(calls) :
    (IsTarget(heap0[l]) /\ LacksClusteringState(heap0[l])) =>
      pc = "raised" /\ err = MissingClusteringState

(* C4 as stated: the classifier reports exactly one of composed, bare-layer *)
(* and subclassed for every Model or Layer.                                 *)
C4_ExactlyOneCategory ==
  flags # NotComputed =>
    Cardinality({k \in 1..3 : flags[k]}) = 1

(* C5: a layer that is not a model and does not meet the wrap, name and     *)
(* type criteria is never changed, the transform applied to it raises       *)
(* nothing and returns that same layer.                                     *)
C5_PassThrough ==
  \A l \in DOMAIN heap0 :
    (~IsInstanceModel(heap0[l]) /\ ~IsTarget(heap0[l])) =>
      /\ LayerUntouched(l)
      /\ errAt # l
      /\ \A k \in 1..Len(topRets) : topCalls[k] = l => topRets[k] = l
      /\ (pc = "returned" /\ flags[1]) =>
           \A k \in 1..Len(heap0[ToStrip]._self_tracked_trackables) :
             heap0[ToStrip]._self_tracked_trackables[k] = l =>
               heap[ret]._self_tracked_trackables[k] = l

\* strip has returned a depthwise wrapper that still carries clustering variables
C5_Witness ==
  /\ pc = "returned"
  /\ topCalls = <<ToStrip>>
  /\ ret = ToStrip
  /\ heap0[ToStrip].has_layer
  /\ In(DEPTHWISE_MARKER, heap0[ToStrip].inner_name)
  /\ heap0[ToStrip].inner_cls = "DepthwiseConv2D"
  /\ HasMarker(heap[ToStrip]._trainable_weights, CENTROIDS_MARKER)
  /\ HasMarker(heap[ToStrip]._non_trainable_weights, INDICES_MARKER)

(* C6: once the transform has stripped a matching wrapper, its trainable    *)
(* collection is the old one without the centroid and original-weights      *)
(* entries, its non-trainable collection the old one without the index      *)
(* entries, in the old order, and every variable not named kernel:0 has its *)
(* pre-strip value.                                                         *)
C6_StripFrame ==
  \A l \in DOMAIN heap0 :
    (IsTarget(heap0[l]) /\ Transformed(l)) =>
      /\ CollectionsFiltered(l)
      /\ heap[l] = [heap0[l] EXCEPT
                      !._trainable_weights = heap[l]._trainable_weights,
                      !._non_trainable_weights = heap[l]._non_trainable_weights]
      /\ \A v \in DOMAIN vars0 :
           ~In(KERNEL_MARKER, VarName(v)) => vars[v] = vars0[v]
      /\ DOMAIN vars = DOMAIN vars0

\* a stripped wrapper that keeps its quantization range variable, after the
\* index variable, with its value
C6_Witness ==
  \E l \in DOMAIN heap0 :
    /\ IsTarget(heap0[l]) /\ Transformed(l)
    /\ heap0[l]._non_trainable_weights = <<(<<l, 6>>), (<<l, 4>>), (<<l, 9>>)>>
    /\ heap[l]._non_trainable_weights = <<(<<l, 6>>), (<<l, 9>>)>>
    /\ Len(heap[l]._trainable_weights) < Len(heap0[l]._trainable_weights)
    /\ \E v \in VarsOfLayer(l) : vars[v] # vars0[v]

C10_FailureBeforeMutation ==
  (pc = "raised" /\ errAt # NoObject
     /\ IsTarget(heap0[errAt]) /\ LacksClusteringState(heap0[errAt])) =>
    /\ LayerUntouched(errAt)
    /\ \A l \in Range(calls) \ {errAt} :
         IsTarget(heap0[l]) =>
           /\ CollectionsFiltered(l)
           /\ ~LacksClusteringState(heap0[l])

\* the second layer failed after the first was stripped
C10_Witness ==
  /\ pc = "raised"
  /\ errAt = EntryId(2)
  /\ IsTarget(heap0[errAt]) /\ LacksClusteringState(heap0[errAt])
  /\ HasMarker(heap0[errAt]._trainable_weights, ORI_MARKER)
  /\ IsTarget(heap0[EntryId(1)])
  /\ heap[EntryId(1)] # heap0[EntryId(1)]

(* C8: for an index tensor I and a centroid sequence C with                 *)
(* 0 <= I[p] < length(C) at every position, the materializer returns a      *)
(* tensor of I's shape holding C[I[p]] at every position p, and I and C are *)
(* as they were.                                                            *)
C8_MaterializerGathers ==
  (pc # "mat_called"
     /\ \A p \in DOMAIN cluster_indices.at :
          0 <= cluster_indices.at[p]
            /\ cluster_indices.at[p] < cluster_centroids.shape[1]) =>
    /\ pc = "mat_returned"
    /\ clst_weights.shape = cluster_indices.shape
    /\ DOMAIN clst_weights.at = DOMAIN cluster_indices.at
    /\ \A p \in DOMAIN cluster_indices.at :
         clst_weights.at[p] = cluster_centroids.at[<<cluster_indices.at[p]>>]
    /\ cluster_indices \in IndexTensors
    /\ cluster_centroids \in CentroidTensors

\* the spec's example but for the values: a 2x3 index tensor whose transpose
\* positions differ
C8_Witness ==
  /\ pc = "mat_returned"
  /\ cluster_indices.shape = <<2, 3>>
  /\ cluster_centroids.shape = <<2>>
  /\ clst_weights.at[<<0, 1>>] = 20
  /\ clst_weights.at[<<1, 0>>] = 10
  /\ clst_weights.at[<<1, 2>>] = 20

====
